---- MODULE Spec2Model ----
(***************************************************************************)
(* A model of BaselineAgent (src/agent/baseline.py): generate_code,        *)
(* generate_visualization_code and analyze, with the fence extraction the  *)
(* two generators share and the exec() of the generated units.             *)
(*                                                                         *)
(* Texts are sequences of tokens.  A token is a fence marker, the language *)
(* tag, a run of whitespace, or one Python statement.  The tagged opening  *)
(* fence of the source is the token pair <<FENCE, TAG>>.                   *)
(***************************************************************************)
EXTENDS Integers, Sequences, FiniteSets, TLC

VARIABLES
    pc,           \* position of the current analyze call
    question,     \* analyze argument
    execute,      \* analyze argument
    include_viz,  \* analyze argument
    code,         \* analyze local code (line 215)
    result,       \* analyze local result, a dict: key -> value
    exec_globals, \* the namespace dict of line 229 (names bound in it)
    raised,       \* the exception that left analyze, or NoFault
    schemaReads,  \* history: outcome of each load_schema of this call
    completions,  \* history: each litellm.completion call of this call
    executed,     \* history: each exec() of this call
    raw,          \* extraction harness: a raw completion text
    extracted,    \* extraction harness: what the clean-up made of raw
    xdone         \* extraction harness: clean-up applied

vars == <<pc, question, execute, include_viz, code, result, exec_globals,
          raised, schemaReads, completions, executed, raw, extracted, xdone>>

mainVars == <<pc, question, execute, include_viz, code, result, exec_globals,
              raised, schemaReads, completions, executed>>

extractVars == <<raw, extracted, xdone>>

----------------------------------------------------------------------------
(* Tokens *)

\* the three-backtick fence marker
FENCE == "<fence>"
TAG == "python"
\* a run of whitespace between statements (a newline)
WS == "\n"

\* the tagged opening fence tested and split on at lines 94-95 and 193-194
TaggedFence == <<FENCE, TAG>>

\* the bare fence tested and split on at lines 95-97 and 194-196
Fence == <<FENCE>>

\* prefixes of the diagnostic strings of lines 102 and 201
ErrorPrefixCode == "Error generating code: "
ErrorPrefixViz == "Error generating visualization code: "

\* statements a generated unit is made of
BindX == "x = 1"
BindY == "y = 1"
UseX == "print(x)"
RaiseBoom == "raise Exception('boom')"
AssertFalse == "assert False"
SysExit == "sys.exit()"

\* statements that bind a name, and the name
BoundName(s) == IF s = BindX THEN "x" ELSE "y"
Binders == {BindX, BindY}

\* statements that read a name, and the name (the bare tag is a name too)
UsedName(s) == IF s = UseX THEN "x" ELSE "python"
Users == {UseX, TAG}

Statements == Binders \cup Users \cup {RaiseBoom, AssertFalse, SysExit}

----------------------------------------------------------------------------
(* Faults *)

NoFault == [type |-> "none", msg |-> ""]

Fault(t, m) == [type |-> t, msg |-> m]

\* classes that derive from BaseException but not from Exception
NonExceptionTypes == {"SystemExit", "KeyboardInterrupt", "GeneratorExit"}

\* isinstance(e, Exception): what the except clause of line 237 catches
IsException(f) == f.type \notin NonExceptionTypes

----------------------------------------------------------------------------
(* str methods used by the clean-up *)

Min(S) == CHOOSE m \in S : \A n \in S : m <= n

\* the positions where sep occurs in s
Occurs(s, sep) ==
    {j \in 1..(Len(s) - Len(sep) + 1) : SubSeq(s, j, j + Len(sep) - 1) = sep}

\* sep in s
Contains(s, sep) == Occurs(s, sep) # {}

\* s.split(sep): the pieces between successive occurrences, left to right
RECURSIVE Split(_, _)
Split(s, sep) ==
    IF Occurs(s, sep) = {}
    THEN <<s>>
    ELSE LET j == Min(Occurs(s, sep))
         IN  <<SubSeq(s, 1, j - 1)>> \o Split(SubSeq(s, j + Len(sep), Len(s)), sep)

RECURSIVE LStrip(_)
LStrip(s) == IF s # <<>> /\ Head(s) = WS THEN LStrip(Tail(s)) ELSE s

RECURSIVE RStrip(_)
RStrip(s) ==
    IF s # <<>> /\ s[Len(s)] = WS THEN RStrip(SubSeq(s, 1, Len(s) - 1)) ELSE s

\* s.strip()
Strip(s) == RStrip(LStrip(s))

----------------------------------------------------------------------------
(* The clean-up of a completion's text: lines 93-97 and 192-196 *)

\* mutant: the generic branch forgets .strip()
Extract_NoStripGeneric(text) ==
    IF Contains(text, TaggedFence)
    THEN Strip(Split(Split(text, TaggedFence)[2], Fence)[1])
    ELSE IF Contains(text, Fence)
         THEN Split(Split(text, Fence)[2], Fence)[1]
         ELSE text

\* mutant: an opening fence with no closing fence falls back to the text
Extract_RawWhenUnclosed(text) ==
    IF Contains(text, TaggedFence) /\ Len(Split(Split(text, TaggedFence)[2], Fence)) > 1
    THEN Strip(Split(Split(text, TaggedFence)[2], Fence)[1])
    ELSE IF Contains(text, Fence) /\ Len(Split(text, Fence)) > 2
         THEN Strip(Split(Split(text, Fence)[2], Fence)[1])
         ELSE text

\* code.split(opening)[1].split(fence)[0].strip() in either fenced branch,
\* the text itself when it holds no fence (Python index k is index k + 1)
Extract(text) ==
    IF Contains(text, TaggedFence)
    THEN Strip(Split(Split(text, TaggedFence)[2], Fence)[1])
    ELSE IF Contains(text, Fence)
         THEN Strip(Split(Split(text, Fence)[2], Fence)[1])
         ELSE text

----------------------------------------------------------------------------
(* exec(unit, namespace): lines 230 and 235 *)

SyntaxErrorFault == Fault("SyntaxError", "invalid syntax (<string>, line 1)")

NameErrorFault(n) ==
    IF n = "x"
    THEN Fault("NameError", "name 'x' is not defined")
    ELSE Fault("NameError", "name 'python' is not defined")

\* the unit is compiled whole before any of it runs
Compiles(unit) == \A i \in 1..Len(unit) : unit[i] \in Statements \cup {WS}

\* the statements run in order in ns; the first fault ends the run and the
\* bindings made before it stay
RECURSIVE RunStatements(_, _)
RunStatements(unit, ns) ==
    IF unit = <<>>
    THEN [ns |-> ns, fault |-> NoFault]
    ELSE LET s == Head(unit)
         IN  IF s = WS
             THEN RunStatements(Tail(unit), ns)
             ELSE IF s \in Binders
             THEN RunStatements(Tail(unit), ns \cup {BoundName(s)})
             ELSE IF s \in Users
             THEN IF UsedName(s) \in ns
                  THEN RunStatements(Tail(unit), ns)
                  ELSE [ns |-> ns, fault |-> NameErrorFault(UsedName(s))]
             ELSE IF s = RaiseBoom
             THEN [ns |-> ns, fault |-> Fault("Exception", "boom")]
             ELSE IF s = AssertFalse
             THEN [ns |-> ns, fault |-> Fault("AssertionError", "")]
             ELSE [ns |-> ns, fault |-> Fault("SystemExit", "")]

ExecUnit(unit, ns) ==
    IF Compiles(unit)
    THEN RunStatements(unit, ns)
    ELSE [ns |-> ns, fault |-> SyntaxErrorFault]

----------------------------------------------------------------------------
(* Collaborators: the schema file and the completion backend *)

\* what open(self.schema_path) finds at one load_schema call
SchemaOutcomes == {"ok", "missing", "unreadable"}

\* the exception load_schema lets out (lines 23-27)
LoadSchemaFault(o) ==
    IF o = "missing"
    THEN Fault("FileNotFoundError", "Schema file not found: ../data/schema.md")
    ELSE Fault("PermissionError", "Permission denied: ../data/schema.md")

\* mutant: a failed read is swallowed and the schema taken as empty
LoadSchemaRaises_Swallowed(o) == FALSE

\* load_schema has no handler that absorbs a failed read
LoadSchemaRaises(o) == o # "ok"

\* texts the backend may answer with
Responses ==
    { <<FENCE, TAG, WS, BindX, WS, FENCE>>,
      <<BindX>>,
      <<WS, BindX, WS>>,
      <<FENCE, BindY, FENCE>>,
      <<FENCE, TAG, UseX, FENCE>>,
      <<FENCE, TAG, BindX>>,
      <<FENCE, FENCE>>,
      <<RaiseBoom>>,
      <<BindX, AssertFalse>>,
      <<BindY, SysExit>> }

\* faults litellm.completion may raise
BackendFaults == {Fault("APIConnectionError", "timeout"), Fault("Timeout", "")}

\* one litellm.completion call: a text, or a fault
Outcomes ==
    {[fault |-> NoFault, text |-> t] : t \in Responses}
        \cup {[fault |-> f, text |-> <<>>] : f \in BackendFaults}

\* f"{prefix}{str(e)}" of lines 102 and 201
Diagnostic(prefix, f) == <<prefix, f.msg>>

\* mutant: a backend fault yields an empty unit
GeneratedUnit_EmptyOnFault(prefix, out) ==
    IF out.fault # NoFault THEN <<>> ELSE Extract(out.text)

\* the try block of lines 80-102 and 179-201
GeneratedUnit(prefix, out) ==
    IF out.fault # NoFault THEN Diagnostic(prefix, out.fault) ELSE Extract(out.text)

----------------------------------------------------------------------------
(* The result dict *)

EmptyDict == [k \in {} |-> k]

Put(d, k, v) == [x \in DOMAIN d \cup {k} |-> IF x = k THEN v ELSE d[x]]

\* lines 217-220
NewResult(q, c) == Put(Put(EmptyDict, "question", q), "code", c)

\* mutant: the visualization unit is stored over the analysis unit as well
StoreVizCode_OverCode(d, unit) == Put(Put(d, "viz_code", unit), "code", unit)

\* line 224
StoreVizCode(d, unit) == Put(d, "viz_code", unit)

\* mutant: the handler records the message but leaves the status as it was
ExceptBlock_NoStatus(d, f) == Put(d, "error", f.msg)

\* lines 238-239
ExceptBlock(d, f) == Put(Put(d, "status", "error"), "error", f.msg)

\* mutant: the namespace outlives the call
FreshNamespace_Kept(old) == old

\* line 229: exec_globals = {}
FreshNamespace(old) == {}

\* mutant: each unit has a handler of its own, so the next unit still runs
AfterCode_Continues(f, viz) ==
    IF f = NoFault \/ IsException(f)
    THEN IF viz THEN "exec_viz_code" ELSE "return"
    ELSE "raised"

\* where analyze goes after exec(code, exec_globals): lines 230-239
AfterCode(f, viz) ==
    IF f = NoFault
    THEN IF viz THEN "exec_viz_code" ELSE "return"
    ELSE IF IsException(f) THEN "return" ELSE "raised"

\* where analyze goes after exec(result['viz_code'], exec_globals)
AfterVizCode(f) == IF f = NoFault \/ IsException(f) THEN "return" ELSE "raised"

\* lines 222 and 226 after generate_code
AfterGenerateCode(viz, ex) ==
    IF viz THEN "generate_visualization_code"
    ELSE IF ex THEN "exec_code" ELSE "return"

\* line 226 after generate_visualization_code
AfterGenerateViz(ex) == IF ex THEN "exec_code" ELSE "return"

----------------------------------------------------------------------------
(* Bounds and input sets *)

\* longest raw text the extraction harness draws
MaxLen == 5

\* two of the demo questions
Questions ==
    {"What are the top 5 most expensive products?", "Show the monthly sales trend"}

\* tokens of the raw texts of the extraction harness
Alphabet == {FENCE, TAG, WS, BindX}

RawTexts == UNION {[1..n -> Alphabet] : n \in 0..MaxLen}

----------------------------------------------------------------------------
(* analyze: lines 203-241 *)

Init ==
    /\ pc = "idle"
    /\ question = ""
    /\ execute = FALSE
    /\ include_viz = FALSE
    /\ code = <<>>
    /\ result = EmptyDict
    /\ exec_globals = {}
    /\ raised = NoFault
    /\ schemaReads = <<>>
    /\ completions = <<>>
    /\ executed = <<>>
    /\ raw = <<>>
    /\ extracted = <<>>
    /\ xdone = "raw"

\* a caller invokes analyze(question, execute, include_viz)
Call ==
    /\ pc \in {"idle", "returned", "raised"}
    /\ \E q \in Questions, ex \in BOOLEAN, viz \in BOOLEAN :
          /\ question' = q
          /\ execute' = ex
          /\ include_viz' = viz
    /\ pc' = "generate_code"
    /\ code' = <<>>
    /\ result' = EmptyDict
    /\ raised' = NoFault
    /\ schemaReads' = <<>>
    /\ completions' = <<>>
    /\ executed' = <<>>
    /\ UNCHANGED <<exec_globals, raw, extracted, xdone>>

\* generate_code, line 39: schema = self.load_schema()
LoadSchemaCode ==
    /\ pc = "generate_code"
    /\ \E o \in SchemaOutcomes :
          /\ schemaReads' = Append(schemaReads, o)
          /\ IF LoadSchemaRaises(o)
             THEN pc' = "raised" /\ raised' = LoadSchemaFault(o)
             ELSE pc' = "complete_code" /\ raised' = raised
    /\ UNCHANGED <<question, execute, include_viz, code, result, exec_globals,
                   completions, executed, raw, extracted, xdone>>

\* generate_code, lines 80-102, and analyze, lines 215-220
CompleteCode ==
    /\ pc = "complete_code"
    /\ \E out \in Outcomes :
          LET unit == GeneratedUnit(ErrorPrefixCode, out)
          IN  /\ code' = unit
              /\ result' = NewResult(question, unit)
              /\ completions' = Append(completions,
                     [kind |-> "analysis", fault |-> out.fault, unit |-> unit])
    /\ pc' = AfterGenerateCode(include_viz, execute)
    /\ UNCHANGED <<question, execute, include_viz, exec_globals, raised,
                   schemaReads, executed, raw, extracted, xdone>>

\* generate_visualization_code, line 115: schema = self.load_schema()
LoadSchemaViz ==
    /\ pc = "generate_visualization_code"
    /\ \E o \in SchemaOutcomes :
          /\ schemaReads' = Append(schemaReads, o)
          /\ IF LoadSchemaRaises(o)
             THEN pc' = "raised" /\ raised' = LoadSchemaFault(o)
             ELSE pc' = "complete_viz" /\ raised' = raised
    /\ UNCHANGED <<question, execute, include_viz, code, result, exec_globals,
                   completions, executed, raw, extracted, xdone>>

\* generate_visualization_code, lines 179-201, and analyze, lines 223-224
CompleteViz ==
    /\ pc = "complete_viz"
    /\ \E out \in Outcomes :
          LET unit == GeneratedUnit(ErrorPrefixViz, out)
          IN  /\ result' = StoreVizCode(result, unit)
              /\ completions' = Append(completions,
                     [kind |-> "visualization", fault |-> out.fault, unit |-> unit])
    /\ pc' = AfterGenerateViz(execute)
    /\ UNCHANGED <<question, execute, include_viz, code, exec_globals, raised,
                   schemaReads, executed, raw, extracted, xdone>>

\* analyze, lines 227-231 and the handler of lines 237-239
ExecCode ==
    /\ pc = "exec_code"
    /\ LET ns == FreshNamespace(exec_globals)
           r == ExecUnit(code, ns)
       IN  /\ exec_globals' = r.ns
           /\ executed' = Append(executed,
                  [kind |-> "analysis", ns |-> ns, fault |-> r.fault])
           /\ pc' = AfterCode(r.fault, include_viz)
           /\ result' = IF r.fault = NoFault THEN Put(result, "status", "success")
                        ELSE IF IsException(r.fault) THEN ExceptBlock(result, r.fault)
                        ELSE result
           /\ raised' = IF r.fault # NoFault /\ ~IsException(r.fault)
                        THEN r.fault ELSE raised
    /\ UNCHANGED <<question, execute, include_viz, code, schemaReads,
                   completions, raw, extracted, xdone>>

\* analyze, lines 234-235 and the handler of lines 237-239
ExecVizCode ==
    /\ pc = "exec_viz_code"
    /\ LET r == ExecUnit(result["viz_code"], exec_globals)
       IN  /\ exec_globals' = r.ns
           /\ executed' = Append(executed,
                  [kind |-> "visualization", ns |-> exec_globals, fault |-> r.fault])
           /\ pc' = AfterVizCode(r.fault)
           /\ result' = IF r.fault # NoFault /\ IsException(r.fault)
                        THEN ExceptBlock(result, r.fault) ELSE result
           /\ raised' = IF r.fault # NoFault /\ ~IsException(r.fault)
                        THEN r.fault ELSE raised
    /\ UNCHANGED <<question, execute, include_viz, code, schemaReads,
                   completions, raw, extracted, xdone>>

\* analyze, line 241: return result
Return ==
    /\ pc = "return"
    /\ pc' = "returned"
    /\ UNCHANGED <<question, execute, include_viz, code, result, exec_globals,
                   raised, schemaReads, completions, executed, raw, extracted,
                   xdone>>

Next ==
    \/ Call
    \/ LoadSchemaCode
    \/ CompleteCode
    \/ LoadSchemaViz
    \/ CompleteViz
    \/ ExecCode
    \/ ExecVizCode
    \/ Return

Spec == Init /\ [][Next]_vars

----------------------------------------------------------------------------
(* The clean-up on its own, over every raw text up to MaxLen tokens *)

InitExtract ==
    /\ pc = "idle"
    /\ question = ""
    /\ execute = FALSE
    /\ include_viz = FALSE
    /\ code = <<>>
    /\ result = EmptyDict
    /\ exec_globals = {}
    /\ raised = NoFault
    /\ schemaReads = <<>>
    /\ completions = <<>>
    /\ executed = <<>>
    /\ raw \in RawTexts
    /\ extracted = <<>>
    /\ xdone = "raw"

\* generate_code, lines 93-97
CleanUpCode ==
    /\ xdone = "raw"
    /\ extracted' = Extract(raw)
    /\ xdone' = "code"
    /\ UNCHANGED <<raw, pc, question, execute, include_viz, code, result,
                   exec_globals, raised, schemaReads, completions, executed>>

\* generate_visualization_code, lines 192-196
CleanUpVizCode ==
    /\ xdone = "raw"
    /\ extracted' = Extract(raw)
    /\ xdone' = "viz_code"
    /\ UNCHANGED <<raw, pc, question, execute, include_viz, code, result,
                   exec_globals, raised, schemaReads, completions, executed>>

NextExtract ==
    \/ CleanUpCode
    \/ CleanUpVizCode

SpecExtract == InitExtract /\ [][NextExtract]_vars

----------------------------------------------------------------------------
(* Vocabulary of the properties *)

Terminal == pc \in {"returned", "raised"}

HasStatus == "status" \in DOMAIN result

HasError == "error" \in DOMAIN result

ErrorReported == HasStatus /\ result["status"] = "error" /\ HasError

\* every load_schema of this call found the schema
SchemaReadable == \A i \in DOMAIN schemaReads : schemaReads[i] = "ok"

\* the Complete step of kind k faulted in this call
BackendFaulted(k) ==
    \E i \in DOMAIN completions :
        completions[i].kind = k /\ completions[i].fault # NoFault

AnalysisUnitFaulted == Len(executed) >= 1 /\ executed[1].fault # NoFault

VizUnitExecuted == \E i \in DOMAIN executed : executed[i].kind = "visualization"

\* the units analyze was asked to run: [analysis] or [analysis, visualization]
UnitsRequested == IF include_viz THEN 2 ELSE 1

AllUnitsCompleted ==
    /\ Len(executed) = UnitsRequested
    /\ \A i \in DOMAIN executed : executed[i].fault = NoFault

\* the names the binding statements of a unit bind
BindingsOf(unit) ==
    {BoundName(unit[i]) : i \in {j \in 1..Len(unit) : unit[j] \in Binders}}

HasFence(s) == \E i \in 1..Len(s) : s[i] = FENCE

Trimmed(s) == s = <<>> \/ (s[1] # WS /\ s[Len(s)] # WS)

\* a fence at position i that carries the language tag
TaggedAt(s, i) == s[i] = FENCE /\ i < Len(s) /\ s[i + 1] = TAG

\* where the clean-up's opening fence ends: the first tagged fence if there
\* is one, else the first fence
OpeningEnd(s) ==
    IF \E i \in 1..Len(s) : TaggedAt(s, i)
    THEN Min({i \in 1..Len(s) : TaggedAt(s, i)}) + 1
    ELSE Min({i \in 1..Len(s) : s[i] = FENCE})

AfterOpening(s) == SubSeq(s, OpeningEnd(s) + 1, Len(s))

\* an opening fence with no closing fence after it
Unclosed(s) == HasFence(s) /\ ~HasFence(AfterOpening(s))

----------------------------------------------------------------------------
(* C1 *)

\* C1: in an analyze call with execute and include_viz, once the execution
\* of the analysis unit has raised a fault the visualization unit is not
\* executed, and the result analyze returns has status error and the fault's
\* message as its error.
C1_ShortCircuit ==
    (execute /\ include_viz /\ AnalysisUnitFaulted) =>
        /\ ~VizUnitExecuted
        /\ pc \in {"return", "returned"} =>
              /\ ErrorReported
              /\ result["error"] = executed[1].fault.msg

C1_Witness ==
    /\ pc = "returned"
    /\ execute
    /\ include_viz
    /\ AnalysisUnitFaulted
    /\ result["error"] = "boom"

----------------------------------------------------------------------------
(* C2 *)

\* C2: every fault raised by an executed unit, of whatever kind, is captured:
\* analyze does not raise it and the result has status error and an error
\* message.
C2_EveryFaultCaptured ==
    \A i \in DOMAIN executed :
        executed[i].fault # NoFault => (raised = NoFault /\ ErrorReported)

----------------------------------------------------------------------------
(* C3 *)

\* C3 as stated, its part about the returned result: with the schema readable
\* and a Complete step faulted, a result returned with execute has status
\* error and a non-empty error message.
C3_Original ==
    (pc = "returned" /\ execute /\ SchemaReadable
        /\ (BackendFaulted("analysis") \/ BackendFaulted("visualization"))) =>
        (ErrorReported /\ result["error"] # "")

DiagnosticOf(c) ==
    <<IF c.kind = "analysis" THEN ErrorPrefixCode ELSE ErrorPrefixViz, c.fault.msg>>

\* C3 amended: a fault of a Complete step is never raised by analyze; the
\* unit of that step is the diagnostic string and the later steps still run.
\* If the analysis Complete step faulted (schema readable), analyze returns
\* and, with execute, reports status error with a non-empty message.  If the
\* visualization Complete step faulted, the same is reported whenever the
\* analysis unit ran without fault, so that the diagnostic unit was executed.
C3_Resilience ==
    /\ \A i \in DOMAIN completions :
          completions[i].fault # NoFault =>
              /\ completions[i].unit = DiagnosticOf(completions[i])
              /\ completions[i].kind = "analysis" => result["code"] = completions[i].unit
              /\ completions[i].kind = "visualization" =>
                    result["viz_code"] = completions[i].unit
    /\ raised # NoFault => \A f \in BackendFaults : raised.type # f.type
    /\ (Terminal /\ SchemaReadable /\ BackendFaulted("analysis")) =>
          /\ pc = "returned"
          /\ Len(completions) = UnitsRequested
          /\ execute => (ErrorReported /\ result["error"] # "")
    /\ (Terminal /\ execute /\ BackendFaulted("visualization")) =>
          /\ Len(executed) >= 1
          /\ executed[1].fault = NoFault =>
                /\ pc = "returned"
                /\ Len(executed) = 2
                /\ ErrorReported
                /\ result["error"] # ""

C3_Witness ==
    /\ pc = "returned"
    /\ execute
    /\ BackendFaulted("visualization")
    /\ ~BackendFaulted("analysis")
    /\ Len(executed) = 2
    /\ result["error"] = SyntaxErrorFault.msg

----------------------------------------------------------------------------
(* C4 *)

\* C4: when the schema is absent as analyze starts, analyze raises the
\* FileNotFoundError to its caller; no completion call has been made, no unit
\* executed, and no result built.
C4_MissingSchema ==
    (schemaReads # <<>> /\ schemaReads[1] = "missing") =>
        /\ pc = "raised"
        /\ raised.type = "FileNotFoundError"
        /\ completions = <<>>
        /\ executed = <<>>
        /\ result = EmptyDict

C4_Witness ==
    /\ schemaReads = <<"missing">>
    /\ pc = "raised"
    /\ raised # NoFault

----------------------------------------------------------------------------
(* C5 *)

\* C5 as stated: whatever the raw text, the unit the clean-up returns has no
\* leading or trailing whitespace.
C5_Original == xdone # "raw" => Trimmed(extracted)

\* C5 amended: when the raw text holds a fence the unit returned has no
\* leading or trailing whitespace; when it holds none the raw text is
\* returned as it is, surrounding whitespace included.
C5_TrimsFenced ==
    xdone # "raw" =>
        IF HasFence(raw) THEN Trimmed(extracted) ELSE extracted = raw

C5_Witness ==
    /\ xdone # "raw"
    /\ ~HasFence(raw)
    /\ Len(raw) >= 3
    /\ raw[1] = WS
    /\ raw[Len(raw)] = WS
    /\ extracted = raw

----------------------------------------------------------------------------
(* C6 *)

\* C6 as stated: once step 1 has produced the analysis unit, analyze ends by
\* returning a result whose code is that unit, however the visualization
\* pass ends (a unit's own escaping fault set aside).
C6_Original ==
    (Terminal /\ Len(completions) >= 1 /\ raised.type \notin NonExceptionTypes) =>
        (pc = "returned" /\ result["code"] = completions[1].unit)

\* C6 amended: once step 1 has produced the analysis unit, the result holds
\* exactly that unit as its code whatever the visualization Complete step and
\* extraction produce, and every result returned has it; but a failed schema
\* read of the visualization pass makes analyze raise, and no result is
\* returned.
C6_CodeKept ==
    /\ Len(completions) >= 1 =>
          /\ "code" \in DOMAIN result
          /\ result["code"] = completions[1].unit
          /\ code = completions[1].unit
    /\ (Len(schemaReads) = 2 /\ schemaReads[2] # "ok") =>
          /\ pc = "raised"
          /\ raised = LoadSchemaFault(schemaReads[2])
          /\ Len(completions) = 1

C6_Witness ==
    /\ pc = "returned"
    /\ include_viz
    /\ BackendFaulted("visualization")
    /\ ~BackendFaulted("analysis")
    /\ result["code"] = completions[1].unit
    /\ result["code"] # result["viz_code"]

----------------------------------------------------------------------------
(* C7 *)

\* C7: the units of one call run one at a time, the analysis unit first, in
\* one namespace that is empty when the analysis unit starts; the
\* visualization unit starts in exactly the bindings the analysis unit of
\* this call left, none from an earlier call.
C7_SharedContext ==
    /\ Len(executed) <= 2
    /\ Len(executed) >= 1 =>
          /\ executed[1].kind = "analysis"
          /\ executed[1].ns = {}
    /\ Len(executed) = 2 =>
          /\ executed[2].kind = "visualization"
          /\ executed[1].fault = NoFault
          /\ executed[2].ns = BindingsOf(result["code"])

C7_Witness ==
    /\ Len(executed) = 2
    /\ executed[2].ns = {"x"}
    /\ \E i \in 1..Len(result["viz_code"]) : result["viz_code"][i] = UseX
    /\ executed[2].fault = NoFault

----------------------------------------------------------------------------
(* C8 *)

\* C8 as stated: for a raw text with no fence, or with an opening fence and
\* no closing fence after it, the clean-up returns the raw text.
C8_Original ==
    (xdone # "raw" /\ (~HasFence(raw) \/ Unclosed(raw))) => extracted = raw

\* C8 amended: the clean-up never fails; for a raw text with no fence it
\* returns the raw text, and for an opening fence with no closing fence after
\* it, it returns what follows the opening fence, trimmed.
C8_Fallback ==
    xdone # "raw" =>
        /\ ~HasFence(raw) => extracted = raw
        /\ Unclosed(raw) => extracted = Strip(AfterOpening(raw))

C8_Witness ==
    /\ xdone # "raw"
    /\ Unclosed(raw)
    /\ extracted # <<>>
    /\ extracted # raw

----------------------------------------------------------------------------
(* C9 *)

\* C9: in every result analyze returns, status is set exactly when execute
\* was true; it is success exactly when every requested unit completed
\* without fault and error otherwise; error is set exactly when status is
\* error.
C9_StatusConsistent ==
    pc = "returned" =>
        /\ HasStatus <=> execute
        /\ HasStatus => result["status"] \in {"success", "error"}
        /\ HasStatus => (result["status"] = "success" <=> AllUnitsCompleted)
        /\ HasError <=> (HasStatus /\ result["status"] = "error")

C9_Witness ==
    /\ pc = "returned"
    /\ execute
    /\ include_viz
    /\ Len(executed) = 2
    /\ executed[1].fault = NoFault
    /\ executed[2].fault # NoFault
    /\ result["status"] = "error"

----------------------------------------------------------------------------
(* C10 *)

\* the order of the steps of one call
StepOrder ==
    /\ Len(completions) <= 2
    /\ Len(completions) >= 1 => completions[1].kind = "analysis"
    /\ Len(completions) = 2 => (include_viz /\ completions[2].kind = "visualization")
    /\ pc \in {"return", "returned"} => Len(completions) = UnitsRequested
    /\ executed # <<>> => (execute /\ Len(completions) = UnitsRequested)
    /\ Len(executed) <= UnitsRequested

====
